---- MODULE Spec2Model ----
(***************************************************************************)
(* Model of the multi-session worker of rust-tdlib (src/client/worker.rs): *)
(* the session registry `clients` behind a tokio RwLock, the updates task  *)
(* (EventPump), the auth task (AuthPump), handle_auth_state, auth_client   *)
(* (registerSession) with its monitor task, start()/stop().                *)
(*                                                                         *)
(* Every `.await` of the source is a boundary between two actions.         *)
(***************************************************************************)
EXTENDS Integers, Sequences, FiniteSets, TLC

----------------------------------------------------------------------------
(* Bounds of the model. *)

\* Client objects the application builds.
MaxClients == 2
\* Events the engine's receive() returns over a run (timeouts not counted).
MaxEvents == 3
\* Calls of auth_client over a run.
MaxCalls == 2
\* Calls of start() over a run.
MaxStarts == 2
\* Inputs of a run: calls of auth_client plus events returned by receive().
MaxInputs == 4
\* Capacity of the authorization channel (mpsc::channel(20), scaled down).
AuthChanCap == 2
\* Capacity of a session's state channel (mpsc::channel(10), scaled down).
StateChanCap == 2
\* Capacity of a client's update channel (the application's choice).
UpdChanCap == 2

Clients == 1..MaxClients
\* Calls of auth_client, numbered in the order they are made.
Calls == 1..MaxCalls
\* Ids the engine hands out (one per call) and events carry; NoId: no id.
Ids == 1..MaxCalls
NoId == 0
\* An id the engine knows and the registry never holds (a client created
\* outside auth_client with the same TdLibClient).
ForeignId == MaxCalls + 1
\* No entry / no call.
NoCall == 0

----------------------------------------------------------------------------
(* Values. *)

\* enum ClientState { Opened, Closed, Error(String) }
Opened == [tag |-> "Opened", msg |-> ""]
Closed == [tag |-> "Closed", msg |-> ""]
Error(m) == [tag |-> "Error", msg |-> m]
\* A JoinHandle<ClientState> that has not resolved / does not exist.
Pending == [tag |-> "Pending", msg |-> ""]
NoHandle == [tag |-> "None", msg |-> ""]

\* enum AuthorizationState (the variants handle_auth_state matches on).
NoOpStates == {"_Default", "Closing", "LoggingOut"}
NotifyStates == {"Closed", "Ready"}
ValueStates == {"WaitCode", "WaitEncryptionKey", "WaitPassword",
                "WaitPhoneNumber", "WaitRegistration"}
AuthStates == NoOpStates \cup NotifyStates \cup ValueStates \cup
              {"WaitOtherDeviceConfirmation", "WaitTdlibParameters",
               "GetAuthorizationState"}

\* One state for each way handle_auth_state treats a state: no-op, notice on
\* the state channel, callback and request, callback alone, request alone,
\* error.
LifecycleStates == {"_Default", "Closed", "Ready", "WaitCode",
                    "WaitOtherDeviceConfirmation", "WaitTdlibParameters",
                    "GetAuthorizationState"}

\* What the AuthStateHandler callbacks can return.
HandlerValues == {"v1", "v2"}

\* A decoded event: kind is "auth" (Update::AuthorizationState), "update" (any
\* other Update), "response" (an object the observer has a subscriber for),
\* "other" (not an Update, no subscriber).  seq is the position of the event
\* in the engine's output, cid the client id it carries (NoId: none).
Event(kind, cid, st, seq, to, ok) ==
    [kind |-> kind, cid |-> cid, st |-> st, seq |-> seq, to |-> to, ok |-> ok]
NoEvent == Event("none", NoId, "", 0, 0, TRUE)

\* Tasks that take the registry lock.
UpdatesTask == [t |-> "updates", k |-> 0]
AuthTask == [t |-> "auth", k |-> 0]
CallerTask(k) == [t |-> "auth_client", k |-> k]

\* The waiter of a request over the auth task's session (no caller index).
AuthWaiter == 0

VARIABLES
    stop_flag,      \* Worker.stop_flag
    clients,        \* Worker.clients: id -> the call whose (Client, Sender) it holds
    lock_readers,   \* tasks holding a read guard of the RwLock
    lock_queue,     \* tasks waiting for the RwLock, FIFO
    client_id,      \* Client.client_id of each client object (NoId: unbound)
    has_sender,     \* Client.updates_sender() is Some
    upd_chan,       \* each client's update channel
    call_client,    \* the client object each call of auth_client was given
    state_chan,     \* the ClientState channel each call created
    state_rx,       \* its receiver: "none", "open" or "dropped"
    state_read,     \* what rx.recv() has returned to each call, in order
    auth_chan,      \* the authorization channel of start()
    pc_u,           \* position of the updates task
    u_ev,           \* the event the updates task is routing
    pc_a,           \* position of the auth task
    a_ev,           \* the authorization event the auth task handles
    pc_reg,         \* position of each auth_client call and its monitor
    reg_result,     \* what auth_client returned
    handle,         \* the JoinHandle<ClientState> auth_client returned
    resp,           \* each waiter's request: "none", "pending", "ok", "err"
    request,        \* the request each waiter sent last and awaits the reply of
    n_events,       \* events the engine has returned
    warned,         \* the warn! lines logged: which task found which id unknown
    n_calls,        \* calls of auth_client made
    start_handle,   \* the JoinHandle<ClientState> start() returned
    n_starts        \* calls of start() made

vars == <<stop_flag, clients, lock_readers, lock_queue, client_id,
          has_sender, upd_chan, call_client, state_chan, state_rx, state_read,
          auth_chan, pc_u, u_ev,
          pc_a, a_ev, pc_reg, reg_result, handle, resp, request, n_events,
          warned, n_calls, start_handle, n_starts>>

lock_vars == <<lock_readers, lock_queue>>
updates_vars == <<pc_u, u_ev>>
auth_vars == <<pc_a, a_ev>>
reg_vars == <<pc_reg, reg_result, handle, state_rx, state_read, client_id,
              n_calls, call_client, has_sender>>
chan_vars == <<upd_chan, state_chan, auth_chan>>

----------------------------------------------------------------------------
(* Worker::new and the client objects the application has built. *)

\* A request as the engine's send() sees it.
Request(id, kind, value) == [cid |-> id, kind |-> kind, value |-> value]
NoRequest == [cid |-> NoId, kind |-> "none", value |-> ""]
NoResult == [tag |-> "None", msg |-> ""]
Ok == [tag |-> "Ok", msg |-> ""]
Err(m) == [tag |-> "Err", msg |-> m]

Init ==
    /\ stop_flag = FALSE
    /\ clients = [i \in Ids |-> NoCall]
    /\ lock_readers = {}
    /\ lock_queue = <<>>
    /\ client_id = [k \in Clients |-> NoId]
    /\ has_sender = [k \in Clients |-> FALSE]
    /\ upd_chan = [k \in Clients |-> <<>>]
    /\ call_client = [c \in Calls |-> 0]
    /\ state_chan = [c \in Calls |-> <<>>]
    /\ state_rx = [c \in Calls |-> "none"]
    /\ state_read = [c \in Calls |-> <<>>]
    /\ auth_chan = <<>>
    /\ pc_u = "unstarted"
    /\ u_ev = NoEvent
    /\ pc_a = "unstarted"
    /\ a_ev = NoEvent
    /\ pc_reg = [c \in Calls |-> "idle"]
    /\ reg_result = [c \in Calls |-> NoResult]
    /\ handle = [c \in Calls |-> NoHandle]
    /\ resp = [w \in {AuthWaiter} \cup Calls |-> "none"]
    /\ request = [w \in {AuthWaiter} \cup Calls |-> NoRequest]
    /\ n_events = 0
    /\ warned = {}
    /\ n_calls = 0
    /\ start_handle = NoHandle
    /\ n_starts = 0

----------------------------------------------------------------------------
(* Channels, the registry and its lock. *)

\* (A plausible slip: the message jumps the queue.)
ChanSendFront(ch, m) == <<m>> \o ch

\* mpsc::Sender::send_timeout on a channel with room: the message joins the
\* back of the queue.
ChanSend(ch, m) == Append(ch, m)

\* clients.get(&client_id): the call whose entry the registry holds, NoCall
\* for None.
Lookup(id) == IF id \in Ids THEN clients[id] ELSE NoCall

\* (A plausible slip: the registry is replaced by a map of the new entry
\* alone.)
InsertEvicting(id, c) == [i \in Ids |-> IF i = id THEN c ELSE NoCall]

\* (A plausible slip: the insert is left out of the path to the first
\* request.)
InsertSkipped(id, c) == clients

\* HashMap::insert(client_id, (client.clone(), sx)).
Insert(id, c) == [clients EXCEPT ![id] = c]

\* The state channel's sender lives in the registry entry only.
SenderAlive(c) == \E i \in Ids : clients[i] = c

\* A task joins the FIFO queue of the RwLock (read().await / write().await).
LockRequest(t) == lock_queue' = Append(lock_queue, t)

\* tokio's RwLock is fair: the head of the queue is served first, a reader as
\* soon as no writer holds the lock (a writer never holds it across an await
\* here), a writer once no read guard is left.
ReadGranted(t) == lock_queue # <<>> /\ Head(lock_queue) = t
WriteGranted(t) == lock_queue # <<>> /\ Head(lock_queue) = t /\ lock_readers = {}

UpdatesEnded == pc_u \in {"done", "err", "panicked"}
AuthEnded == pc_a \in {"done", "err"}

----------------------------------------------------------------------------
(* The engine and the observer. *)

\* The ids the engine's events carry: those new_client() has handed out, or
\* none.
EngineIds == (1..n_calls) \cup {NoId, ForeignId}

\* What the engine's receive() can return next: an undecodable string, a reply
\* to a request some caller waits for, an object nobody waits for, an
\* authorization-state update, or any other update.
EngineEvents(states) ==
    LET n == n_events + 1 IN
    {Event("malformed", NoId, "", n, 0, TRUE), Event("other", NoId, "", n, 0, TRUE)}
    \cup {Event("response", NoId, "", n, w, ok) :
            w \in {x \in DOMAIN resp : resp[x] = "pending"}, ok \in BOOLEAN}
    \cup {Event("auth", i, st, n, 0, TRUE) : i \in 1..n_calls, st \in states}
    \cup {Event("auth", i, "Ready", n, 0, TRUE) : i \in {NoId, ForeignId}}
    \cup {Event("update", i, "", n, 0, TRUE) : i \in EngineIds}

\* OBSERVER.notify(t): None when a subscriber took the object.
Consumed(ev) == ev.kind = "response"

----------------------------------------------------------------------------
(* The updates task (EventPump), Worker::init_updates_task. *)

\* (A plausible slip: the update goes to the first entry of the map.)
UpdateDestFirstEntry(ev) ==
    call_client[clients[CHOOSE i \in Ids : clients[i] # NoCall]]

\* The client whose update channel an update is sent on: the one of the
\* entry clients.get(&client_id) returned.
UpdateDest(ev) == call_client[Lookup(ev.cid)]

\* (A plausible slip: a send that times out drops the event and goes on.)
OnSendTimeoutDrops == "loop"

\* Where the task goes when send_timeout(..).await? fails.
OnSendTimeout == "err"

\* (A plausible slip: an unknown id ends the task like a failed send.)
OnUnknownUpdateClientFatal == "err"

\* Where the updates task goes after the lookup of an id the registry does
\* not hold: the None arm only warns.
OnUnknownUpdateClient == "loop"

\* while !stop_flag.load(Acquire) { spawn_blocking(receive) ...
UpdatesLoop ==
    /\ pc_u = "loop"
    /\ pc_u' = IF stop_flag THEN "done" ELSE "receive"
    /\ UNCHANGED <<stop_flag, clients, lock_vars, reg_vars,
                   chan_vars, u_ev, auth_vars, resp, request, n_events, warned, start_handle, n_starts>>

\* receive(recv_timeout) returned None.
UpdatesReceiveNone ==
    /\ pc_u = "receive"
    /\ pc_u' = "loop"
    /\ UNCHANGED <<stop_flag, clients, lock_vars, reg_vars,
                   chan_vars, u_ev, auth_vars, resp, request, n_events, warned, start_handle, n_starts>>

\* (A plausible slip: an event that fails to decode is logged and skipped.)
RouteSkipsMalformed(ev) ==
    IF ev.kind = "malformed" \/ Consumed(ev) \/ ev.kind = "other" THEN "none"
    ELSE IF ev.kind = "auth" THEN "auth"
    ELSE IF ev.cid = NoId THEN "none"
    ELSE "lookup"

\* (A plausible slip: the observer's answer is not looked at, and an object
\* it consumed goes on to the authorization channel.)
RouteForwardsConsumed(ev) ==
    IF ev.kind = "malformed" THEN "panic"
    ELSE IF ev.kind = "other" THEN "none"
    ELSE IF ev.kind = "auth" \/ Consumed(ev) THEN "auth"
    ELSE IF ev.cid = NoId THEN "none"
    ELSE "lookup"

\* What the task does with the string receive() returned: panic when
\* from_json fails, nothing when OBSERVER.notify consumed the object or it is
\* not an Update, the authorization channel for Update::AuthorizationState,
\* nothing for an update without client id, the registry lookup otherwise.
Route(ev) ==
    IF ev.kind = "malformed" THEN "panic"
    ELSE IF Consumed(ev) THEN "none"
    ELSE IF ev.kind = "other" THEN "none"
    ELSE IF ev.kind = "auth" THEN "auth"
    ELSE IF ev.cid = NoId THEN "none"
    ELSE "lookup"

\* receive returned Some(json): from_json, OBSERVER.notify and the routing
\* decision, up to the first await of the iteration.
UpdatesReceive(ev) ==
    /\ pc_u = "receive"
    /\ n_events < MaxEvents
    /\ n_calls + n_events < MaxInputs
    /\ n_events' = n_events + 1
    /\ resp' = IF Consumed(ev)
               THEN [resp EXCEPT ![ev.to] = IF ev.ok THEN "ok" ELSE "err"]
               ELSE resp
    /\ IF Route(ev) = "panic" THEN
            /\ pc_u' = "panicked"
            /\ UNCHANGED <<u_ev, lock_queue>>
       ELSE IF Route(ev) = "none" THEN
            /\ pc_u' = "loop"
            /\ UNCHANGED <<u_ev, lock_queue>>
       ELSE IF Route(ev) = "auth" THEN
            /\ pc_u' = "send_auth"
            /\ u_ev' = ev
            /\ UNCHANGED lock_queue
       ELSE
            /\ pc_u' = "read_clients"
            /\ u_ev' = ev
            /\ LockRequest(UpdatesTask)
    /\ UNCHANGED <<stop_flag, clients, lock_readers, reg_vars,
                   chan_vars, auth_vars, request, warned, start_handle, n_starts>>

\* auth_sx.send_timeout(auth_state, send_timeout).await? completes: the
\* receiver is gone (error) or the channel has room.
UpdatesSendAuth ==
    /\ pc_u = "send_auth"
    /\ AuthEnded \/ Len(auth_chan) < AuthChanCap
    /\ IF AuthEnded
       THEN pc_u' = "err" /\ UNCHANGED auth_chan
       ELSE pc_u' = "loop" /\ auth_chan' = ChanSend(auth_chan, u_ev)
    /\ u_ev' = NoEvent
    /\ UNCHANGED <<stop_flag, clients, lock_vars, reg_vars,
                   upd_chan, state_chan, auth_vars, resp, request, n_events, warned,
                   start_handle, n_starts>>

\* ... or the channel stayed full for send_timeout.
UpdatesSendAuthTimeout ==
    /\ pc_u = "send_auth"
    /\ ~AuthEnded
    /\ Len(auth_chan) >= AuthChanCap
    /\ pc_u' = OnSendTimeout
    /\ u_ev' = NoEvent
    /\ UNCHANGED <<stop_flag, clients, lock_vars, reg_vars,
                   chan_vars, auth_vars, resp, request, n_events, warned, start_handle, n_starts>>

\* clients.read().await.get(&client_id): the read guard is granted; it lives
\* to the end of the match, so across the send below.
UpdatesReadClients ==
    /\ pc_u = "read_clients"
    /\ ReadGranted(UpdatesTask)
    /\ lock_queue' = Tail(lock_queue)
    /\ IF Lookup(u_ev.cid) = NoCall THEN
            /\ pc_u' = OnUnknownUpdateClient
            /\ u_ev' = NoEvent
            /\ warned' = warned \cup {[task |-> "updates", id |-> u_ev.cid]}
            /\ UNCHANGED lock_readers
       ELSE IF ~has_sender[UpdateDest(u_ev)] THEN
            /\ pc_u' = "loop"
            /\ u_ev' = NoEvent
            /\ UNCHANGED <<lock_readers, warned>>
       ELSE
            /\ pc_u' = "send_update"
            /\ lock_readers' = lock_readers \cup {UpdatesTask}
            /\ UNCHANGED <<u_ev, warned>>
    /\ UNCHANGED <<stop_flag, clients, reg_vars, chan_vars,
                   auth_vars, resp, request, n_events, start_handle, n_starts>>

\* sender.send_timeout(update, send_timeout).await? completes.
UpdatesSendUpdate ==
    /\ pc_u = "send_update"
    /\ Len(upd_chan[UpdateDest(u_ev)]) < UpdChanCap
    /\ upd_chan' = [upd_chan EXCEPT
                      ![UpdateDest(u_ev)] = ChanSend(@, u_ev)]
    /\ pc_u' = "loop"
    /\ u_ev' = NoEvent
    /\ lock_readers' = lock_readers \ {UpdatesTask}
    /\ UNCHANGED <<stop_flag, clients, lock_queue, reg_vars,
                   state_chan, auth_chan, auth_vars, resp, request, n_events, warned,
                   start_handle, n_starts>>

\* ... or times out on a full channel.
UpdatesSendUpdateTimeout ==
    /\ pc_u = "send_update"
    /\ Len(upd_chan[UpdateDest(u_ev)]) >= UpdChanCap
    /\ pc_u' = OnSendTimeout
    /\ u_ev' = NoEvent
    /\ lock_readers' = lock_readers \ {UpdatesTask}
    /\ UNCHANGED <<stop_flag, clients, lock_queue, reg_vars,
                   chan_vars, auth_vars, resp, request, n_events, warned, start_handle, n_starts>>

\* The application takes the next update off a client's channel.
ConsumeUpdate(k) ==
    /\ upd_chan[k] # <<>>
    /\ upd_chan' = [upd_chan EXCEPT ![k] = Tail(@)]
    /\ UNCHANGED <<stop_flag, clients, lock_vars, reg_vars,
                   state_chan, auth_chan, updates_vars, auth_vars, resp, request,
                   n_events, warned, start_handle, n_starts>>

----------------------------------------------------------------------------
(* The auth task (AuthPump), Worker::init_auth_task, and handle_auth_state. *)

\* (A plausible slip: the code and the password arms send each other's
\* request.)
RequestKindSwapped(st) ==
    CASE st = "WaitCode" -> "CheckAuthenticationPassword"
      [] st = "WaitEncryptionKey" -> "CheckDatabaseEncryptionKey"
      [] st = "WaitPassword" -> "CheckAuthenticationCode"
      [] st = "WaitPhoneNumber" -> "SetAuthenticationPhoneNumber"
      [] st = "WaitRegistration" -> "RegisterUser"
      [] st = "WaitTdlibParameters" -> "SetTdlibParameters"
      [] OTHER -> "none"

\* The request handle_auth_state sends for a state, once its value is known.
RequestKind(st) ==
    CASE st = "WaitCode" -> "CheckAuthenticationCode"
      [] st = "WaitEncryptionKey" -> "CheckDatabaseEncryptionKey"
      [] st = "WaitPassword" -> "CheckAuthenticationPassword"
      [] st = "WaitPhoneNumber" -> "SetAuthenticationPhoneNumber"
      [] st = "WaitRegistration" -> "RegisterUser"
      [] st = "WaitTdlibParameters" -> "SetTdlibParameters"
      [] OTHER -> "none"

\* (A plausible slip: the two notices are exchanged.)
StateNoticeSwapped(st) == IF st = "Ready" THEN Closed ELSE Opened

\* The ClientState handle_auth_state puts on the state channel.
StateNotice(st) == IF st = "Ready" THEN Opened ELSE Closed

\* Where the auth task goes after the lookup of an id the registry does not
\* hold: the None arm only warns.
OnUnknownAuthClient == "recv"

\* (A plausible slip: the state is a no-op like _Default.)
OnUnexpectedStateIgnored == "recv"

\* Where the auth task goes when handle_auth_state(..).await? returns the
\* error of the GetAuthorizationState arm.
OnUnexpectedState == "err"

\* (A plausible slip: each event is handled in a task of its own, so the next
\* recv() does not wait for the handling of the last event.)
AuthCanRecvWhileHandling == pc_a \in {"recv", "handler", "request"}

\* The task is at auth_rx.recv(): the loop body, handle_auth_state included,
\* is awaited in place before the next recv().
AuthCanRecv == pc_a = "recv"

\* while let Some(auth_state) = auth_rx.recv().await
AuthRecv ==
    /\ AuthCanRecv
    /\ auth_chan # <<>> \/ UpdatesEnded
    /\ IF auth_chan = <<>> THEN
            /\ pc_a' = "done"
            /\ UNCHANGED <<a_ev, auth_chan, lock_queue>>
       ELSE
            /\ auth_chan' = Tail(auth_chan)
            /\ IF Head(auth_chan).cid = NoId
               THEN UNCHANGED <<pc_a, a_ev, lock_queue>>
               ELSE /\ pc_a' = "read_clients"
                    /\ a_ev' = Head(auth_chan)
                    /\ LockRequest(AuthTask)
    /\ UNCHANGED <<stop_flag, clients, lock_readers, reg_vars,
                   upd_chan, state_chan, updates_vars, resp, request, n_events, warned,
                   start_handle, n_starts>>

\* clients.read().await.get(&client_id) is granted, and handle_auth_state
\* runs to its first await.  The read guard lives until handle_auth_state
\* has returned.
AuthReadClients ==
    /\ pc_a = "read_clients"
    /\ ReadGranted(AuthTask)
    /\ lock_queue' = Tail(lock_queue)
    /\ LET c == Lookup(a_ev.cid)
           st == a_ev.st
       IN IF c = NoCall THEN
               /\ pc_a' = OnUnknownAuthClient
               /\ a_ev' = NoEvent
               /\ warned' = warned \cup {[task |-> "auth", id |-> a_ev.cid]}
               /\ UNCHANGED <<lock_readers, resp, request>>
          ELSE IF st \in NoOpStates THEN
               /\ pc_a' = "recv"
               /\ a_ev' = NoEvent
               /\ UNCHANGED <<lock_readers, resp, request, warned>>
          ELSE IF st = "GetAuthorizationState" THEN
               /\ pc_a' = OnUnexpectedState
               /\ a_ev' = NoEvent
               /\ UNCHANGED <<lock_readers, resp, request, warned>>
          ELSE IF st \in NotifyStates THEN
               /\ pc_a' = "send_state"
               /\ lock_readers' = lock_readers \cup {AuthTask}
               /\ UNCHANGED <<a_ev, resp, request, warned>>
          ELSE IF st = "WaitTdlibParameters" THEN
               /\ pc_a' = "request"
               /\ lock_readers' = lock_readers \cup {AuthTask}
               /\ request' = [request EXCEPT ![AuthWaiter] =
                                Request(a_ev.cid, RequestKind(st), "parameters")]
               /\ resp' = [resp EXCEPT ![AuthWaiter] = "pending"]
               /\ UNCHANGED <<a_ev, warned>>
          ELSE
               /\ pc_a' = "handler"
               /\ lock_readers' = lock_readers \cup {AuthTask}
               /\ UNCHANGED <<a_ev, resp, request, warned>>
    /\ UNCHANGED <<stop_flag, clients, reg_vars, chan_vars,
                   updates_vars, n_events, start_handle, n_starts>>

\* (A plausible slip: the result of the notice's send is dropped.)
OnStateSendErrorIgnored == "recv"

\* Where the auth task goes when auth_sender.send_timeout(..).await? fails,
\* the receiver being gone or the channel staying full.
OnStateSendError == "err"

\* auth_sender.send_timeout(ClientState, send_state_timeout).await? completes:
\* the receiver was dropped (error) or the channel has room.
AuthSendState ==
    /\ pc_a = "send_state"
    /\ LET c == Lookup(a_ev.cid) IN
        /\ state_rx[c] = "dropped" \/ Len(state_chan[c]) < StateChanCap
        /\ IF state_rx[c] = "dropped"
           THEN pc_a' = OnStateSendError /\ UNCHANGED state_chan
           ELSE /\ pc_a' = "recv"
                /\ state_chan' = [state_chan EXCEPT
                                    ![c] = ChanSend(@, StateNotice(a_ev.st))]
    /\ a_ev' = NoEvent
    /\ lock_readers' = lock_readers \ {AuthTask}
    /\ UNCHANGED <<stop_flag, clients, lock_queue, reg_vars,
                   upd_chan, auth_chan, updates_vars, resp, request, n_events, warned,
                   start_handle, n_starts>>

\* ... or times out on a full state channel.
AuthSendStateTimeout ==
    /\ pc_a = "send_state"
    /\ LET c == Lookup(a_ev.cid) IN
        /\ state_rx[c] # "dropped"
        /\ Len(state_chan[c]) >= StateChanCap
    /\ pc_a' = OnStateSendError
    /\ a_ev' = NoEvent
    /\ lock_readers' = lock_readers \ {AuthTask}
    /\ UNCHANGED <<stop_flag, clients, lock_queue, reg_vars,
                   chan_vars, updates_vars, resp, request, n_events, warned, start_handle, n_starts>>

\* The AuthStateHandler callback returns v; the follow-up request is sent.
AuthHandlerReturn(v) ==
    /\ pc_a = "handler"
    /\ v \in HandlerValues
    /\ IF a_ev.st = "WaitOtherDeviceConfirmation" THEN
            /\ pc_a' = "recv"
            /\ a_ev' = NoEvent
            /\ lock_readers' = lock_readers \ {AuthTask}
            /\ UNCHANGED <<resp, request>>
       ELSE
            /\ pc_a' = "request"
            /\ request' = [request EXCEPT ![AuthWaiter] =
                             Request(a_ev.cid, RequestKind(a_ev.st), v)]
            /\ resp' = [resp EXCEPT ![AuthWaiter] = "pending"]
            /\ UNCHANGED <<a_ev, lock_readers>>
    /\ UNCHANGED <<stop_flag, clients, lock_queue, reg_vars,
                   chan_vars, updates_vars, n_events, warned, start_handle, n_starts>>

\* client.<request>(..).await? returns with the engine's reply.
AuthRequestDone ==
    /\ pc_a = "request"
    /\ resp[AuthWaiter] \in {"ok", "err"}
    /\ pc_a' = IF resp[AuthWaiter] = "ok" THEN "recv" ELSE "err"
    /\ resp' = [resp EXCEPT ![AuthWaiter] = "none"]
    /\ request' = [request EXCEPT ![AuthWaiter] = NoRequest]
    /\ a_ev' = NoEvent
    /\ lock_readers' = lock_readers \ {AuthTask}
    /\ UNCHANGED <<stop_flag, clients, lock_queue, reg_vars,
                   chan_vars, updates_vars, n_events, warned, start_handle, n_starts>>

----------------------------------------------------------------------------
(* Worker::auth_client (registerSession) and the monitor task it spawns. *)

\* rx.recv() returned None: every sender of the channel is gone.
NoMsg == [tag |-> "NoMsg", msg |-> ""]

\* The id new_client() returns: the engine numbers its clients.
NewClientId == n_calls + 1

\* The client objects a caller can pass: one it was handed back by an
\* earlier call, or the next one never passed before.
Passable(k) ==
    \/ \E c \in Calls : /\ call_client[c] = k
                        /\ pc_reg[c] \in {"monitor", "finished"}
                        /\ reg_result[c] = Ok
    \/ /\ \A c \in Calls : call_client[c] # k
       /\ \A j \in Clients : j < k => \E c \in Calls : call_client[c] = j

\* (A plausible slip: Opened is answered like Closed, with a resolved handle
\* and no monitor.)
FirstStateOpenedResolved(msg) ==
    CASE msg.tag = "Error" ->
            [result |-> Err(msg.msg), handle |-> NoHandle, pc |-> "finished"]
      [] msg.tag = "Opened" ->
            [result |-> Ok, handle |-> Opened, pc |-> "finished"]
      [] OTHER ->
            [result |-> Ok, handle |-> Closed, pc |-> "finished"]

\* (A plausible slip: the early return on Closed is missing.)
FirstStateClosedWaits(msg) ==
    CASE msg.tag = "Error" ->
            [result |-> Err(msg.msg), handle |-> NoHandle, pc |-> "finished"]
      [] OTHER ->
            [result |-> Ok, handle |-> Pending, pc |-> "monitor"]

\* (A plausible slip: the early return on Error is missing.)
FirstStateErrorWaits(msg) ==
    CASE msg.tag = "Closed" ->
            [result |-> Ok, handle |-> Closed, pc |-> "finished"]
      [] OTHER ->
            [result |-> Ok, handle |-> Pending, pc |-> "monitor"]

\* What auth_client does with the first message of the state channel: its
\* return value, the handle it returns, and whether the monitor is spawned.
FirstState(msg) ==
    CASE msg.tag = "Closed" ->
            [result |-> Ok, handle |-> Closed, pc |-> "finished"]
      [] msg.tag = "Error" ->
            [result |-> Err(msg.msg), handle |-> NoHandle, pc |-> "finished"]
      [] OTHER ->
            [result |-> Ok, handle |-> Pending, pc |-> "monitor"]

\* (A plausible slip: the arm for a second Opened is missing.)
MonitorStateNoOpenedArm(msg) ==
    CASE msg.tag = "NoMsg" -> Error("auth state channel closed")
      [] OTHER -> msg

\* What the monitor task resolves the handle to.
MonitorState(msg) ==
    CASE msg.tag = "Opened" -> Error("received Opened state again")
      [] msg.tag = "NoMsg" -> Error("auth state channel closed")
      [] OTHER -> msg

\* rx.recv().await returns: the head of the channel, or None once the channel
\* is empty and its sender dropped.
RecvReady(c) == state_chan[c] # <<>> \/ ~SenderAlive(c)
RecvMsg(c) == IF state_chan[c] # <<>> THEN Head(state_chan[c]) ELSE NoMsg

\* Client::set_client_id(id) on a client whose id is old: an error when the
\* client has an id already, else the client takes the id.
SetClientId(old, id) ==
    IF old # NoId
    THEN [ok |-> FALSE, id |-> old, err |-> "client already authorized"]
    ELSE [ok |-> TRUE, id |-> id, err |-> ""]

\* (A plausible slip: the result of set_client_id is dropped, as set_client
\* does with the registry insert before it.)
AfterSetClientIdIgnored(ok) == "write_clients"

\* client.set_client_id(client_id)?: an error returns from auth_client, else
\* the call goes on to the registry insert.
AfterSetClientId(ok) == IF ok THEN "write_clients" ELSE "finished"

\* auth_client(client): new_client(), set_client_id(client_id)?, the state
\* channel, and the request for the write lock.  id is what new_client()
\* returned.
AuthClientCall(k, id, hs) ==
    LET c == n_calls + 1 IN
    /\ n_calls < MaxCalls
    /\ n_calls + n_events < MaxInputs
    /\ Passable(k)
    /\ IF \E d \in Calls : call_client[d] = k
       THEN UNCHANGED has_sender
       ELSE has_sender' = [has_sender EXCEPT ![k] = hs]
    /\ n_calls' = c
    /\ call_client' = [call_client EXCEPT ![c] = k]
    /\ LET set == SetClientId(client_id[k], id) IN
       /\ client_id' = [client_id EXCEPT ![k] = set.id]
       /\ pc_reg' = [pc_reg EXCEPT ![c] = AfterSetClientId(set.ok)]
       /\ IF AfterSetClientId(set.ok) = "finished" THEN
               /\ reg_result' = [reg_result EXCEPT ![c] = Err(set.err)]
               /\ UNCHANGED <<state_rx, lock_queue>>
          ELSE
               /\ state_rx' = [state_rx EXCEPT ![c] = "open"]
               /\ LockRequest(CallerTask(c))
               /\ UNCHANGED reg_result
    /\ UNCHANGED <<stop_flag, clients, lock_readers, chan_vars,
                   handle, state_read, updates_vars, auth_vars, resp, request,
                   n_events, warned, start_handle, n_starts>>

\* self.clients.write().await.insert(client_id, (client.clone(), sx)), then
\* client.get_application_config(..) is sent.
AuthClientInsert(c) ==
    /\ pc_reg[c] = "write_clients"
    /\ WriteGranted(CallerTask(c))
    /\ lock_queue' = Tail(lock_queue)
    /\ clients' = Insert(client_id[call_client[c]], c)
    /\ request' = [request EXCEPT ![c] =
                     Request(client_id[call_client[c]], "GetApplicationConfig", "")]
    /\ resp' = [resp EXCEPT ![c] = "pending"]
    /\ pc_reg' = [pc_reg EXCEPT ![c] = "get_config"]
    /\ UNCHANGED <<stop_flag, lock_readers, has_sender, chan_vars, reg_result,
                   handle, state_rx, state_read, client_id, n_calls,
                   call_client, updates_vars, auth_vars, n_events, warned,
                   start_handle, n_starts>>

\* get_application_config(..).await? returns with the engine's reply.
AuthClientConfigDone(c) ==
    /\ pc_reg[c] = "get_config"
    /\ resp[c] \in {"ok", "err"}
    /\ resp' = [resp EXCEPT ![c] = "none"]
    /\ request' = [request EXCEPT ![c] = NoRequest]
    /\ IF resp[c] = "ok" THEN
            /\ pc_reg' = [pc_reg EXCEPT ![c] = "recv_first"]
            /\ UNCHANGED <<reg_result, state_rx>>
       ELSE
            /\ pc_reg' = [pc_reg EXCEPT ![c] = "finished"]
            /\ reg_result' = [reg_result EXCEPT ![c] = Err("request failed")]
            /\ state_rx' = [state_rx EXCEPT ![c] = "dropped"]
    /\ UNCHANGED <<stop_flag, clients, lock_vars, has_sender, chan_vars,
                   handle, state_read, client_id, n_calls, call_client,
                   updates_vars, auth_vars, n_events, warned, start_handle, n_starts>>

\* if let Some(msg) = rx.recv().await { match msg .. }, the spawn of the
\* monitor and the return.
AuthClientRecvFirst(c) ==
    /\ pc_reg[c] = "recv_first"
    /\ RecvReady(c)
    /\ LET msg == RecvMsg(c)
           out == FirstState(msg)
       IN /\ state_read' = [state_read EXCEPT ![c] = Append(@, msg)]
          /\ state_chan' = [state_chan EXCEPT
                              ![c] = IF @ = <<>> THEN @ ELSE Tail(@)]
          /\ reg_result' = [reg_result EXCEPT ![c] = out.result]
          /\ handle' = [handle EXCEPT ![c] = out.handle]
          /\ pc_reg' = [pc_reg EXCEPT ![c] = out.pc]
          /\ state_rx' = [state_rx EXCEPT
                            ![c] = IF out.pc = "monitor" THEN @ ELSE "dropped"]
    /\ UNCHANGED <<stop_flag, clients, lock_vars, has_sender, upd_chan,
                   auth_chan, client_id, n_calls, call_client, updates_vars,
                   auth_vars, resp, request, n_events, warned, start_handle, n_starts>>

\* The monitor task: match rx.recv().await { .. }.
MonitorRecv(c) ==
    /\ pc_reg[c] = "monitor"
    /\ RecvReady(c)
    /\ LET msg == RecvMsg(c)
       IN /\ state_read' = [state_read EXCEPT ![c] = Append(@, msg)]
          /\ state_chan' = [state_chan EXCEPT
                              ![c] = IF @ = <<>> THEN @ ELSE Tail(@)]
          /\ handle' = [handle EXCEPT ![c] = MonitorState(msg)]
    /\ pc_reg' = [pc_reg EXCEPT ![c] = "finished"]
    /\ state_rx' = [state_rx EXCEPT ![c] = "dropped"]
    /\ UNCHANGED <<stop_flag, clients, lock_vars, has_sender, upd_chan,
                   auth_chan, reg_result, client_id, n_calls, call_client,
                   updates_vars, auth_vars, resp, request, n_events, warned, start_handle, n_starts>>

----------------------------------------------------------------------------
(* Worker::start, its supervisor task, and Worker::stop. *)

\* (A plausible slip: start() clears the flag for the new run.)
StartFlagReset(flag) == FALSE

\* The stop flag after start(): start() clones the Arc of the flag for its
\* supervisor and stores nothing.
StartFlag(flag) == flag

\* start(): the authorization channel and the two tasks.
Start ==
    /\ start_handle = NoHandle
    /\ start_handle' = Pending
    /\ n_starts' = n_starts + 1
    /\ stop_flag' = StartFlag(stop_flag)
    /\ pc_u' = "loop"
    /\ pc_a' = "recv"
    /\ auth_chan' = <<>>
    /\ UNCHANGED <<clients, lock_vars, reg_vars,
                   upd_chan, state_chan, u_ev, a_ev, resp, request, n_events, warned>>

\* start() called again on the same worker, once the handle of the last
\* start() has resolved and both its tasks have ended.
Restart ==
    /\ start_handle \notin {NoHandle, Pending}
    /\ UpdatesEnded
    /\ AuthEnded
    /\ n_starts < MaxStarts
    /\ start_handle' = Pending
    /\ n_starts' = n_starts + 1
    /\ stop_flag' = StartFlag(stop_flag)
    /\ pc_u' = "loop"
    /\ pc_a' = "recv"
    /\ auth_chan' = <<>>
    /\ UNCHANGED <<clients, lock_vars, reg_vars,
                   upd_chan, state_chan, u_ev, a_ev, resp, request, n_events, warned>>

\* What select! makes of a finished task: Ok(_) is any returned value of the
\* task, Err(e) a JoinError (the task panicked).
SelectState(pc) == IF pc = "panicked" THEN Error("task panicked") ELSE Closed

\* tokio::select! on the two JoinHandles, then stop.store(true).
Supervise ==
    /\ start_handle = Pending
    /\ \E pc \in ({pc_u} \cap {"done", "err", "panicked"})
                  \cup ({pc_a} \cap {"done", "err"}) :
            start_handle' = SelectState(pc)
    /\ stop_flag' = TRUE
    /\ UNCHANGED <<clients, lock_vars, reg_vars, chan_vars,
                   updates_vars, auth_vars, resp, request, n_events, warned, n_starts>>

\* stop()
Stop ==
    /\ ~stop_flag
    /\ stop_flag' = TRUE
    /\ UNCHANGED <<clients, lock_vars, reg_vars, chan_vars,
                   updates_vars, auth_vars, resp, request, n_events, warned, start_handle, n_starts>>

----------------------------------------------------------------------------
(* Specifications. *)

\* The updates task over an engine whose authorization events carry the
\* given states.
UpdatesOver(states) ==
    \/ UpdatesLoop
    \/ UpdatesReceiveNone
    \/ \E ev \in EngineEvents(states) : UpdatesReceive(ev)
    \/ UpdatesSendAuth
    \/ UpdatesSendAuthTimeout
    \/ UpdatesReadClients
    \/ UpdatesSendUpdate
    \/ UpdatesSendUpdateTimeout

Updates == UpdatesOver(LifecycleStates)

Auth ==
    \/ AuthRecv
    \/ AuthReadClients
    \/ AuthSendState
    \/ AuthSendStateTimeout
    \/ \E v \in HandlerValues : AuthHandlerReturn(v)
    \/ AuthRequestDone

Register ==
    \/ \E c \in Calls : AuthClientInsert(c)
    \/ \E c \in Calls : AuthClientConfigDone(c)
    \/ \E c \in Calls : AuthClientRecvFirst(c)
    \/ \E c \in Calls : MonitorRecv(c)

\* Everything but the updates task and the calls of auth_client.
Others ==
    \/ Auth
    \/ Register
    \/ Start
    \/ Supervise
    \/ Stop
    \/ \E k \in Clients : ConsumeUpdate(k)

Common ==
    \/ Updates
    \/ Others

\* The worker over an engine that numbers its clients.
Next ==
    \/ Common
    \/ \E k \in Clients, hs \in BOOLEAN : AuthClientCall(k, NewClientId, hs)

Spec == Init /\ [][Next]_vars

\* The same worker under the scheduling tokio gives: a task that can take a
\* step is eventually polled, a timeout eventually fires, and (to the
\* worker's advantage) an AuthStateHandler callback eventually returns.
FairSpec ==
    /\ Spec
    /\ WF_vars(Updates)
    /\ WF_vars(Auth)
    /\ WF_vars(Register)
    /\ WF_vars(Supervise)

\* The worker over an engine that sends every authorization state.
NextAllStates ==
    \/ UpdatesOver(AuthStates)
    \/ Others
    \/ \E k \in Clients, hs \in BOOLEAN : AuthClientCall(k, NewClientId, hs)

SpecAllStates == Init /\ [][NextAllStates]_vars

\* The worker started again after a run has ended.
NextRestart ==
    \/ Next
    \/ Restart

SpecRestart == Init /\ [][NextRestart]_vars

\* The worker over a TdLibClient (WorkerBuilder::with_tdlib_client) whose
\* new_client() may return an id it has returned before.
NextMockEngine ==
    \/ Common
    \/ \E k \in Clients, hs \in BOOLEAN, id \in 1..NewClientId :
            AuthClientCall(k, id, hs)

SpecMockEngine == Init /\ [][NextMockEngine]_vars

\* A unit test of the worker that feeds a registration's state channel
\* through the sender kept in `clients`, as an engine driving the session to
\* that state would.
TestSendState(c, st) ==
    /\ SenderAlive(c)
    /\ state_rx[c] = "open"
    /\ Len(state_chan[c]) < StateChanCap
    /\ n_events < MaxEvents
    /\ n_calls + n_events < MaxInputs
    /\ n_events' = n_events + 1
    /\ state_chan' = [state_chan EXCEPT ![c] = ChanSend(@, st)]
    /\ UNCHANGED <<stop_flag, clients, lock_vars, reg_vars, upd_chan, auth_chan,
                   updates_vars, auth_vars, resp, request, warned,
                   start_handle, n_starts>>

NextHarness ==
    \/ Next
    \/ \E c \in Calls, st \in {Opened, Closed, Error("boom")} : TestSendState(c, st)

SpecHarness == Init /\ [][NextHarness]_vars

----------------------------------------------------------------------------
(* Claims. *)

\* The client object bound to a session id.
BoundTo(k, id) == id # NoId /\ client_id[k] = id

\* The updates task finishes the routing of the update it holds.
RoutingEnds ==
    /\ pc_u \in {"read_clients", "send_update"}
    /\ pc_u' \notin {"read_clients", "send_update"}

\* C1 as stated: every ordinary update the observer does not consume and
\* whose session id is registered is placed on that session's update channel
\* (and on no other).
C1_Original ==
    [][RoutingEnds /\ Lookup(u_ev.cid) # NoCall
        => \E k \in Clients :
              /\ BoundTo(k, u_ev.cid)
              /\ upd_chan' = [upd_chan EXCEPT ![k] = Append(@, u_ev)]]_vars

\* C1 as amended: an update channel grows only by the update the updates
\* task is routing, at the back of the channel of the client bound to the
\* update's session id, which is registered, and no other update channel
\* changes in that step; the update of a registered session is so placed
\* whenever that client has an update sender and the channel has room, it is
\* dropped when the client has no update sender, and a send that times out
\* places it nowhere and ends the updates task with an error.
C1_Routing ==
    [][/\ \A k \in Clients :
            Len(upd_chan'[k]) > Len(upd_chan[k])
            => /\ pc_u = "send_update"
               /\ u_ev.kind = "update"
               /\ Lookup(u_ev.cid) # NoCall
               /\ BoundTo(k, u_ev.cid)
               /\ upd_chan' = [upd_chan EXCEPT ![k] = Append(@, u_ev)]
       /\ RoutingEnds /\ Lookup(u_ev.cid) # NoCall
            => LET k == CHOOSE j \in Clients : BoundTo(j, u_ev.cid) IN
               IF ~has_sender[k]
               THEN pc_u' = "loop" /\ UNCHANGED upd_chan
               ELSE IF Len(upd_chan[k]) < UpdChanCap
               THEN /\ pc_u' = "loop"
                    /\ upd_chan' = [upd_chan EXCEPT ![k] = Append(@, u_ev)]
               ELSE pc_u' = "err" /\ UNCHANGED upd_chan
       /\ pc_u = "read_clients" /\ pc_u' = "send_update"
            => \E k \in Clients : BoundTo(k, u_ev.cid) /\ has_sender[k]]_vars

\* Two sessions are registered and an update for the second one is on its
\* channel, none on the first one's.
C1_Witness ==
    \E k, j \in Clients :
        /\ k # j
        /\ Lookup(client_id[k]) # NoCall
        /\ Lookup(client_id[j]) # NoCall
        /\ client_id[j] < client_id[k]
        /\ upd_chan[j] = <<>>
        /\ upd_chan[k] # <<>>
        /\ upd_chan[k][1].cid = client_id[k]

\* C2: when the first state message of a registration is Opened, auth_client
\* returns Ok with a handle that is pending as long as the monitor has read
\* nothing, and once the next message read is Closed the handle is Closed.
C2_OpenedThenClosed ==
    \A c \in Calls :
        (Len(state_read[c]) >= 1 /\ state_read[c][1] = Opened)
        => /\ reg_result[c] = Ok
           /\ Len(state_read[c]) = 1
                => handle[c] = Pending /\ pc_reg[c] = "monitor"
           /\ (Len(state_read[c]) >= 2 /\ state_read[c][2] = Closed)
                => handle[c] = Closed /\ pc_reg[c] = "finished"

\* A registration read Opened, then Closed, and its handle has resolved.
C2_Witness ==
    \E c \in Calls :
        /\ state_read[c] = <<Opened, Closed>>
        /\ reg_result[c] = Ok
        /\ handle[c] = Closed

\* C3: when the first state message of a registration is Error(e),
\* auth_client returns Err(e), no monitor is spawned and no handle exists,
\* the receiver is dropped so that nothing more is ever read, and the
\* registry still holds the entry of the session.
C3_FirstError ==
    \A c \in Calls :
        (Len(state_read[c]) >= 1 /\ state_read[c][1].tag = "Error")
        => /\ reg_result[c] = Err(state_read[c][1].msg)
           /\ handle[c] = NoHandle
           /\ pc_reg[c] = "finished"
           /\ state_rx[c] = "dropped"
           /\ Len(state_read[c]) = 1
           /\ Lookup(client_id[call_client[c]]) = c

\* A registration has failed on a first state message Error("boom") while
\* more state messages were sent to it.
C3_Witness ==
    \E c \in Calls :
        /\ state_read[c] = <<Error("boom")>>
        /\ reg_result[c] = Err("boom")
        /\ state_chan[c] # <<>>

\* C4: when the first state message is Closed, auth_client returns Ok with a
\* handle resolved to Closed, its receiver is dropped and nothing more is
\* ever read from the state channel.
C4_FirstClosed ==
    \A c \in Calls :
        (Len(state_read[c]) >= 1 /\ state_read[c][1] = Closed)
        => /\ reg_result[c] = Ok
           /\ handle[c] = Closed
           /\ pc_reg[c] = "finished"
           /\ state_rx[c] = "dropped"
           /\ Len(state_read[c]) = 1

\* A registration whose first state message was Closed has returned while
\* a further state message is in its channel.
C4_Witness ==
    \E c \in Calls :
        /\ state_read[c] = <<Closed>>
        /\ handle[c] = Closed
        /\ state_chan[c] # <<>>

\* C5: a registration that reads Opened and then Opened again resolves its
\* handle to Error("received Opened state again"), never to Opened or
\* Closed.
C5_OpenedTwice ==
    \A c \in Calls :
        (Len(state_read[c]) >= 2 /\ state_read[c][1] = Opened
                                   /\ state_read[c][2] = Opened)
        => /\ handle[c] = Error("received Opened state again")
           /\ Len(state_read[c]) = 2

\* A registration has read Opened twice.
C5_Witness ==
    \E c \in Calls :
        /\ state_read[c] = <<Opened, Opened>>
        /\ handle[c].tag = "Error"

\* C6 as stated: a registration under an id the registry already holds leaves
\* the entry of that id as it was (the registry's entry for an id, once
\* made, is never replaced).
C6_Original ==
    [][\A id \in Ids : clients[id] # NoCall => clients'[id] = clients[id]]_vars

\* The updates task, holding an event for an id the registry does not hold,
\* finishes a step of its routing.
UpdatesSeesUnknown ==
    /\ pc_u \in {"send_auth", "read_clients"}
    /\ pc_u' # pc_u
    /\ u_ev.cid # NoId
    /\ Lookup(u_ev.cid) = NoCall

\* The auth task finishes the lookup of an id the registry does not hold.
AuthSeesUnknown ==
    /\ pc_a = "read_clients"
    /\ pc_a' # pc_a
    /\ Lookup(a_ev.cid) = NoCall

\* C7 as stated: an update or an authorization event for an id that is not
\* in the registry is placed on no channel by the pump that sees it, and
\* that pump goes on with its loop.
C7_Original ==
    [][/\ UpdatesSeesUnknown => pc_u' = "loop" /\ UNCHANGED chan_vars
       /\ AuthSeesUnknown => pc_a' = "recv" /\ UNCHANGED chan_vars]_vars

\* C7 as amended: at the registry lookup an event for an id the registry
\* does not hold is dropped: the updates task (for an ordinary update) and
\* the auth task (for an authorization event) put it on no channel, send no
\* request, take no read guard and return to the top of their loop, leaving
\* the registry, the registrations and the other task as they were; the
\* updates task itself forwards an authorization event on the authorization
\* channel without a lookup, whatever its id, and ends with an error when
\* that send times out or the auth task is gone.
C7_UnknownDropped ==
    [][/\ (UpdatesSeesUnknown /\ pc_u = "read_clients")
            => /\ pc_u' = "loop"
               /\ u_ev' = NoEvent
               /\ UNCHANGED <<chan_vars, stop_flag, clients, lock_readers,
                              reg_vars, auth_vars, resp, request>>
       /\ AuthSeesUnknown
            => /\ pc_a' = "recv"
               /\ a_ev' = NoEvent
               /\ UNCHANGED <<chan_vars, stop_flag, clients, lock_readers,
                              reg_vars, updates_vars, resp, request>>
       /\ (pc_u = "send_auth" /\ pc_u' # pc_u)
            => \/ /\ pc_u' = "loop"
                  /\ ~AuthEnded
                  /\ auth_chan' = Append(auth_chan, u_ev)
               \/ /\ pc_u' = "err"
                  /\ AuthEnded \/ Len(auth_chan) >= AuthChanCap
                  /\ UNCHANGED auth_chan]_vars

\* Both tasks have dropped an event of the foreign id, both are still
\* running, and the update the engine returned last is on the channel of the
\* client bound to its id.
C7_Witness ==
    /\ [task |-> "updates", id |-> ForeignId] \in warned
    /\ [task |-> "auth", id |-> ForeignId] \in warned
    /\ ~UpdatesEnded
    /\ ~AuthEnded
    /\ \E k \in Clients :
            /\ upd_chan[k] # <<>>
            /\ upd_chan[k][Len(upd_chan[k])].seq = n_events
            /\ BoundTo(k, upd_chan[k][Len(upd_chan[k])].cid)

\* C8: a client's update channel changes only by the application taking its
\* head or by the updates task appending the update it is routing, which is
\* the event the engine returned last; so the channel always holds updates
\* in the order receive() returned them.
C8_Order ==
    [][\A k \in Clients :
          /\ upd_chan'[k] # upd_chan[k]
                => \/ upd_chan[k] # <<>> /\ upd_chan'[k] = Tail(upd_chan[k])
                   \/ /\ upd_chan'[k] = Append(upd_chan[k], u_ev)
                      /\ u_ev.seq = n_events
          /\ \A i, j \in 1..Len(upd_chan'[k]) :
                i < j => upd_chan'[k][i].seq < upd_chan'[k][j].seq
          /\ \A i \in 1..Len(upd_chan'[k]) : upd_chan'[k][i].seq <= n_events']_vars

\* Two updates of one session are on its channel, a third was taken before.
C8_Witness ==
    \E k \in Clients :
        /\ Len(upd_chan[k]) = 2
        /\ upd_chan[k][1].seq = 2
        /\ upd_chan[k][2].seq = 3
        /\ upd_chan[k][1].cid = upd_chan[k][2].cid

\* C9: a send of the updates task that finds its channel full when the send
\* timeout expires places the event on no channel and ends the task with an
\* error, for the authorization channel and for an update channel alike; a
\* task in a send can always take a step, and an ended task stays ended.
C9_SendTimeout ==
    /\ [](pc_u \in {"send_auth", "send_update"} => ENABLED Updates)
    /\ [][/\ (/\ pc_u = "send_auth"
              /\ pc_u' # pc_u
              /\ ~AuthEnded
              /\ Len(auth_chan) >= AuthChanCap)
                => pc_u' = "err" /\ UNCHANGED chan_vars
          /\ (/\ pc_u = "send_update"
              /\ pc_u' # pc_u
              /\ Len(upd_chan[UpdateDest(u_ev)]) >= UpdChanCap)
                => pc_u' = "err" /\ UNCHANGED chan_vars
          /\ pc_u = "err" => pc_u' = "err"]_vars

\* The updates task has ended with an error while the auth task runs: a
\* send has timed out.
C9_Witness ==
    /\ pc_u = "err"
    /\ ~AuthEnded
    /\ \/ Len(auth_chan) >= AuthChanCap
       \/ \E k \in Clients : Len(upd_chan[k]) >= UpdChanCap

\* C10 as stated: once stop() has been called on a started worker, the
\* updates task eventually ends.
C10_Original ==
    (stop_flag /\ pc_u # "unstarted") ~> UpdatesEnded

\* A pump has ended / ended in a failure.
PumpEnded == UpdatesEnded \/ AuthEnded
PumpFailed(pc) == pc \in {"err", "panicked"}

\* C11 as stated: once either pump has ended, the handle of start() resolves,
\* the stop flag is set and the other pump ends as well.
C11_Original ==
    PumpEnded ~> (/\ start_handle # Pending
                  /\ stop_flag
                  /\ UpdatesEnded
                  /\ AuthEnded)

\* C12 as stated: when select! resolves the handle of start() and every pump
\* that has ended by then ended in a failure, the handle resolves to Error.
C12_Original ==
    [][(/\ start_handle = Pending
        /\ start_handle' # Pending
        /\ UpdatesEnded => PumpFailed(pc_u)
        /\ AuthEnded => PumpFailed(pc_a))
            => start_handle'.tag = "Error"]_vars

\* C13: a step in which receive() returns a string that fails to decode
\* makes the updates task panic and puts nothing on any channel; a panicked
\* task stays so, no further event is received and nothing more is placed
\* on the authorization channel or on an update channel.
C13_DecodeFailure ==
    [][/\ \A ev \in EngineEvents(LifecycleStates) :
            (ev.kind = "malformed" /\ UpdatesReceive(ev))
            => /\ pc_u' = "panicked"
               /\ UNCHANGED <<chan_vars, u_ev, lock_vars>>
       /\ pc_u = "panicked"
            => /\ pc_u' = "panicked"
               /\ n_events' = n_events
               /\ Len(auth_chan') <= Len(auth_chan)
               /\ \A k \in Clients : Len(upd_chan'[k]) <= Len(upd_chan[k])]_vars

\* The updates task has panicked on the first event the engine returned,
\* with a session registered and more events to come.
C13_Witness ==
    /\ pc_u = "panicked"
    /\ n_events = 1
    /\ \E id \in Ids : Lookup(id) # NoCall

\* C14: a client keeps the id it was bound to; a call of auth_client with a
\* client that has an id returns an error at once, asks for no lock, changes
\* no registry entry and sends no request, and a call that has returned
\* does nothing further.
C14_BoundOnce ==
    [][/\ \A k \in Clients : client_id[k] # NoId => client_id'[k] = client_id[k]
       /\ n_calls' # n_calls
            => LET c == n_calls'
                   k == call_client'[c]
               IN client_id[k] # NoId
                  => /\ reg_result'[c].tag = "Err"
                     /\ pc_reg'[c] = "finished"
                     /\ handle'[c] = NoHandle
                     /\ UNCHANGED <<clients, lock_vars, request, resp, chan_vars>>
       /\ \A c \in Calls :
            (pc_reg[c] = "finished" /\ reg_result[c].tag = "Err")
            => /\ pc_reg'[c] = "finished"
               /\ request'[c] = request[c]
               /\ \A id \in Ids : clients'[id] = c => clients[id] = c]_vars

\* The second call of auth_client was given the client the first call had
\* bound and handed back; it failed, and the registry holds the first
\* call's entry alone.
C14_Witness ==
    /\ n_calls = 2
    /\ call_client[2] = call_client[1]
    /\ reg_result[1] = Ok
    /\ reg_result[2] = Err("client already authorized")
    /\ \A id \in Ids : clients[id] \in {NoCall, 1}
    /\ \E id \in Ids : clients[id] = 1

\* The auth task, holding an event of a registered session, leaves the
\* position pc.
AuthLeaves(pc) ==
    /\ pc_a = pc
    /\ pc_a' # pc
    /\ Lookup(a_ev.cid) # NoCall

\* The follow-up request documented for each authorization state.
FollowUp ==
    [st \in ValueStates \cup {"WaitTdlibParameters"} |->
        CASE st = "WaitEncryptionKey" -> "CheckDatabaseEncryptionKey"
          [] st = "WaitPhoneNumber" -> "SetAuthenticationPhoneNumber"
          [] st = "WaitRegistration" -> "RegisterUser"
          [] st = "WaitCode" -> "CheckAuthenticationCode"
          [] st = "WaitPassword" -> "CheckAuthenticationPassword"
          [] st = "WaitTdlibParameters" -> "SetTdlibParameters"]

\* C15: the auth task sends a request only as the follow-up of the event it
\* handles: the documented request of that event's state, addressed to the
\* id of the registered client, with a value the AuthStateHandler returned
\* after its callback, or, for WaitTdlibParameters, with the client's own
\* parameters and no callback; each of these states leads to its request,
\* and WaitOtherDeviceConfirmation to the callback and no request.
C15_FollowUp ==
    [][/\ (/\ request'[AuthWaiter] # request[AuthWaiter]
           /\ request'[AuthWaiter] # NoRequest)
            => /\ a_ev.st \in DOMAIN FollowUp
               /\ Lookup(a_ev.cid) # NoCall
               /\ request'[AuthWaiter].kind = FollowUp[a_ev.st]
               /\ request'[AuthWaiter].cid = client_id[call_client[Lookup(a_ev.cid)]]
               /\ IF a_ev.st = "WaitTdlibParameters"
                  THEN /\ pc_a = "read_clients"
                       /\ request'[AuthWaiter].value = "parameters"
                  ELSE /\ pc_a = "handler"
                       /\ request'[AuthWaiter].value \in HandlerValues
       /\ AuthLeaves("read_clients")
            => /\ a_ev.st \in ValueStates \cup {"WaitOtherDeviceConfirmation"}
                    => pc_a' = "handler" /\ request' = request
               /\ a_ev.st = "WaitTdlibParameters"
                    => /\ pc_a' = "request"
                       /\ request'[AuthWaiter].kind = "SetTdlibParameters"
       /\ AuthLeaves("handler")
            => IF a_ev.st = "WaitOtherDeviceConfirmation"
               THEN pc_a' = "recv" /\ request' = request
               ELSE /\ pc_a' = "request"
                    /\ request'[AuthWaiter].kind = FollowUp[a_ev.st]]_vars

\* The auth task has sent RegisterUser for the second session registered and
\* awaits the reply.
C15_Witness ==
    /\ pc_a = "request"
    /\ a_ev.st = "WaitRegistration"
    /\ a_ev.cid = 2
    /\ request[AuthWaiter] \in {Request(2, "RegisterUser", v) : v \in HandlerValues}

\* C16: a state channel grows only by the auth task's notice for the event
\* it handles, on the channel of that event's session: Opened for Ready,
\* Closed for Closed; the auth task is in a send only for these two states,
\* and _Default, Closing and LoggingOut end the handling with no notice and
\* no request.
C16_Notices ==
    [][/\ \A c \in Calls :
            Len(state_chan'[c]) > Len(state_chan[c])
            => /\ pc_a = "send_state"
               /\ c = Lookup(a_ev.cid)
               /\ \/ /\ a_ev.st = "Ready"
                     /\ state_chan'[c] = Append(state_chan[c], Opened)
                  \/ /\ a_ev.st = "Closed"
                     /\ state_chan'[c] = Append(state_chan[c], Closed)
       /\ pc_a' = "send_state" => a_ev'.st \in {"Ready", "Closed"}
       /\ (AuthLeaves("read_clients")
              /\ a_ev.st \in {"_Default", "Closing", "LoggingOut"})
            => /\ pc_a' = "recv"
               /\ UNCHANGED <<state_chan, request, resp, lock_readers>>]_vars

\* A session's state channel holds Opened then Closed, and the auth task is
\* back at its recv() after a third event that added nothing to it.
C16_Witness ==
    \E c \in Calls :
        /\ state_chan[c] = <<Opened, Closed>>
        /\ n_events = 3
        /\ pc_a = "recv"
        /\ auth_chan = <<>>

\* C17: for a registered session the GetAuthorizationState state ends the
\* auth task with an error, with no notice and no request; the ended task
\* stays ended and takes nothing more from the authorization channel.
C17_UnexpectedState ==
    [][/\ (AuthLeaves("read_clients") /\ a_ev.st = "GetAuthorizationState")
            => /\ pc_a' = "err"
               /\ UNCHANGED <<state_chan, request, resp, lock_readers>>
       /\ pc_a = "err"
            => pc_a' = "err" /\ UNCHANGED <<auth_chan, a_ev>>]_vars

\* The auth task has ended with an error on the first event, which no send
\* and no request can have caused.
C17_Witness ==
    /\ pc_a = "err"
    /\ n_events = 1
    /\ \A c \in Calls : state_rx[c] # "dropped"
    /\ \A c \in Calls : Len(state_chan[c]) < StateChanCap

\* C18: the auth task takes an event off the authorization channel only at
\* its recv(), when it handles no event, holds no read guard and awaits no
\* reply; it takes the head of the channel, the channel grows at its back by
\* the event the engine returned last, and the event in hand is put down
\* before another is taken: events are handled one at a time, in the order
\* the engine returned them.
C18_OneAtATime ==
    [][/\ Len(auth_chan') < Len(auth_chan)
            => /\ pc_a = "recv"
               /\ a_ev = NoEvent
               /\ AuthTask \notin lock_readers
               /\ request[AuthWaiter] = NoRequest
               /\ auth_chan' = Tail(auth_chan)
               /\ Head(auth_chan).cid # NoId => a_ev' = Head(auth_chan)
       /\ Len(auth_chan') > Len(auth_chan)
            => /\ auth_chan' = Append(auth_chan, u_ev)
               /\ u_ev.seq = n_events
       /\ (a_ev # NoEvent /\ a_ev' # a_ev) => a_ev' = NoEvent
       /\ pc_a' \in {"read_clients", "send_state", "handler", "request"}
            => a_ev' # NoEvent
       /\ \A i, j \in 1..Len(auth_chan') :
            i < j => auth_chan'[i].seq < auth_chan'[j].seq
       /\ (a_ev' # NoEvent /\ auth_chan' # <<>>)
            => a_ev'.seq < auth_chan'[1].seq]_vars

\* The auth task awaits the reply to the follow-up request of the first
\* event while the next two authorization events wait on the channel.
C18_Witness ==
    /\ pc_a = "request"
    /\ a_ev.seq = 1
    /\ Len(auth_chan) = 2
    /\ auth_chan[1].seq = 2
    /\ auth_chan[2].seq = 3

\* C19: a step in which receive() returns an object the observer consumes
\* resolves the waiter it was for and nothing else: the updates task returns
\* to the top of its loop, holds no event and places nothing on a channel;
\* what the task holds for routing, and what it places on the authorization
\* channel or on an update channel, is an event the observer did not
\* consume.
C19_ObserverFirst ==
    [][/\ \A ev \in EngineEvents(LifecycleStates) :
            (Consumed(ev) /\ UpdatesReceive(ev))
            => /\ pc_u' = "loop"
               /\ resp[ev.to] = "pending"
               /\ resp'[ev.to] \in {"ok", "err"}
               /\ UNCHANGED <<chan_vars, u_ev, lock_vars>>
       /\ u_ev' # NoEvent => ~Consumed(u_ev') /\ u_ev'.kind \in {"auth", "update"}
       /\ Len(auth_chan') > Len(auth_chan)
            => /\ auth_chan' = Append(auth_chan, u_ev)
               /\ u_ev.kind = "auth"
       /\ \A k \in Clients :
            Len(upd_chan'[k]) > Len(upd_chan[k])
            => /\ upd_chan'[k] = Append(upd_chan[k], u_ev)
               /\ u_ev.kind = "update"]_vars

\* The reply to a call's get_application_config has been received and
\* consumed: the caller's request is resolved, the updates task is back at
\* the top of its loop and every channel is empty.
C19_Witness ==
    /\ n_events = 1
    /\ pc_u = "loop"
    /\ \E c \in Calls : pc_reg[c] = "get_config" /\ resp[c] = "ok"
    /\ auth_chan = <<>>
    /\ \A k \in Clients : upd_chan[k] = <<>>

\* A read guard is held across an await that does not complete at once: the
\* auth task's callback or follow-up request, or a send on a full channel.
LongHeldRead ==
    \/ /\ AuthTask \in lock_readers
       /\ \/ pc_a \in {"handler", "request"}
          \/ /\ pc_a = "send_state"
             /\ Len(state_chan[Lookup(a_ev.cid)]) >= StateChanCap
    \/ /\ UpdatesTask \in lock_readers
       /\ pc_u = "send_update"
       /\ Len(upd_chan[UpdateDest(u_ev)]) >= UpdChanCap

\* C20 as stated: a call of auth_client whose turn it is to take the write
\* lock is never kept waiting by a long-held read guard.
C20_Original ==
    \A c \in Calls :
        (/\ pc_reg[c] = "write_clients"
         /\ lock_queue # <<>>
         /\ Head(lock_queue) = CallerTask(c))
        => ~LongHeldRead

\* C21: an id the registry holds is held in every later state, whatever
\* becomes of its session: the set of registered ids only grows.
C21_NoEviction ==
    [][\A id \in Ids : clients[id] # NoCall => clients'[id] # NoCall]_vars

\* Two ids are registered, and the session of the first has reached Closed:
\* its handle has resolved and its receiver is gone.
C21_Witness ==
    /\ \A id \in Ids : clients[id] # NoCall
    /\ handle[1] = Closed
    /\ state_rx[1] = "dropped"
    /\ Lookup(client_id[call_client[1]]) = 1

\* C22: a call of auth_client has its entry in the registry from the step
\* in which its first request is sent and as long as a request of it is
\* pending, and no pump ever finds an id unknown that new_client() has
\* handed out: only events of an id foreign to the worker are dropped as
\* unknown.
C22_InsertBeforeProbe ==
    /\ [][\A c \in Calls :
            request'[c] # NoRequest
            => /\ request'[c].cid = client_id'[call_client'[c]]
               /\ clients'[request'[c].cid] = c]_vars
    /\ [](\A w \in warned : w.id = ForeignId)

\* The auth task handles an authorization event of a session whose probe
\* is still unanswered: the lookup has found the session.
C22_Witness ==
    /\ pc_a = "handler"
    /\ Lookup(a_ev.cid) # NoCall
    /\ pc_reg[Lookup(a_ev.cid)] = "get_config"
    /\ resp[Lookup(a_ev.cid)] = "pending"
    /\ warned = {}

\* The auth task is suspended in the handling of an event: in the
\* AuthStateHandler callback or awaiting the reply to its follow-up request.
AuthSuspended ==
    /\ AuthTask \in lock_readers
    /\ \/ pc_a = "handler"
       \/ pc_a = "request" /\ resp[AuthWaiter] = "pending"

\* The updates task waits for the registry and is not served.
UpdatesWaitsForRegistry ==
    /\ pc_u = "read_clients"
    /\ ~ReadGranted(UpdatesTask)

\* C23 as stated: while the auth task is suspended in the handling of an
\* event the updates task is never kept waiting for the registry, a call of
\* auth_client waiting for it or not; in particular the auth task never
\* awaits a reply while the updates task, which alone can deliver it, waits
\* for the registry.
C23_Original ==
    AuthSuspended => ~UpdatesWaitsForRegistry

\* The auth task is about to notify a session whose state-channel receiver
\* is gone.
NoticeToGoneReceiver ==
    /\ pc_a = "send_state"
    /\ state_rx[Lookup(a_ev.cid)] = "dropped"

\* C24: the notice of a Ready or Closed event to a session whose receiver is
\* gone fails: it is placed on no channel and the auth task ends with an
\* error; and once the auth task has ended, the handle of start() resolves,
\* the stop flag is set and the updates task ends.
C24_GoneReceiver ==
    /\ [][(NoticeToGoneReceiver /\ pc_a' # pc_a)
            => pc_a' = "err" /\ UNCHANGED chan_vars]_vars
    /\ [](NoticeToGoneReceiver => ENABLED AuthSendState)
    /\ AuthEnded ~> (start_handle # Pending /\ stop_flag /\ UpdatesEnded)

\* The auth task, handling a Ready event, sends Opened to a session that had
\* read a first Closed and whose call of auth_client has returned, while the
\* updates task is running.
C24_Witness ==
    /\ NoticeToGoneReceiver
    /\ a_ev.st = "Ready"
    /\ state_read[Lookup(a_ev.cid)] = <<Closed>>
    /\ handle[Lookup(a_ev.cid)] = Closed
    /\ ~UpdatesEnded

\* C25: the stop flag starts false and, once true, stays true; it becomes
\* true by stop(), which changes nothing else, or by the supervisor resolving
\* the handle of start() after a pump has ended; an updates task that finds
\* the flag set at the top of its loop ends without a receive, so in every
\* run after the first the flag is set, the updates task is never in a
\* receive and the engine is asked for no event.
C25_FlagMonotonic ==
    /\ ~stop_flag
    /\ [](n_starts > 1 => stop_flag /\ pc_u \in {"loop", "done"})
    /\ [][/\ stop_flag => stop_flag'
          /\ stop_flag' # stop_flag
               => \/ UNCHANGED <<clients, lock_vars, reg_vars, chan_vars,
                                 updates_vars, auth_vars, resp, request,
                                 n_events, warned, start_handle, n_starts>>
                  \/ /\ PumpEnded
                     /\ start_handle = Pending
                     /\ start_handle' # Pending
          /\ (pc_u = "loop" /\ stop_flag /\ pc_u' # pc_u) => pc_u' = "done"
          /\ pc_u' = "receive" => ~stop_flag \/ pc_u = "receive"
          /\ n_starts > 1 => n_events' = n_events]_vars

\* The worker was started a second time after a first run in which the
\* engine returned events; the tasks of the second run have ended and the
\* handle of the second start() has resolved.
C25_Witness ==
    /\ n_starts = 2
    /\ n_events > 0
    /\ pc_u = "done"
    /\ pc_a = "done"
    /\ start_handle = Closed
    /\ stop_flag

====
